---- MODULE Spec2Model ----
(***************************************************************************)
(* Model of duffle's bundle index (pkg/repo), reference resolution and     *)
(* the install command (cmd/duffle).                                       *)
(***************************************************************************)
EXTENDS Integers, Sequences, FiniteSets, TLC

(***************************************************************************)
(* Bounds                                                                  *)
(***************************************************************************)
\* most entries held by the catalog over all names
MaxEntries == 3
\* most entries of the catalog handed to Merge
MaxOther == 1

(***************************************************************************)
(* Strings the model draws from                                            *)
(***************************************************************************)
Names == {"foo", "bar"}
\* version strings of entries: two spellings of 1.2.3, one higher version and
\* one string that is no semantic version
Versions == {"1.2.3", "v1.2.3", "2.0.0", "bad"}
\* version arguments of Get: every entry version, the empty string, a range
\* and an exact version no entry carries
Constraints == Versions \cup {"", ">=2.0.0", "3.0.0"}
Digests == {"d1", "d2"}

\* the nil *BundleEntry
NoEntry == [Name |-> "", Version |-> "", Digest |-> ""]
\* the error of a failed semver.NewVersion / semver.NewConstraint
NoVersion == <<>>
NoConstraint == [op |-> "invalid", ver |-> <<>>]

(***************************************************************************)
(* github.com/Masterminds/semver as the index uses it                      *)
(***************************************************************************)
\* semver.NewVersion: an optional leading v, then major.minor.patch
NewVersion(s) ==
  CASE s = "1.2.3" -> <<1, 2, 3>>
    [] s = "v1.2.3" -> <<1, 2, 3>>
    [] s = "2.0.0" -> <<2, 0, 0>>
    [] s = "3.0.0" -> <<3, 0, 0>>
    [] OTHER -> NoVersion

\* Version.Compare: -1, 0 or 1, major first, then minor, then patch
Compare(v, w) ==
  IF v[1] # w[1] THEN (IF v[1] < w[1] THEN -1 ELSE 1)
  ELSE IF v[2] # w[2] THEN (IF v[2] < w[2] THEN -1 ELSE 1)
  ELSE IF v[3] # w[3] THEN (IF v[3] < w[3] THEN -1 ELSE 1)
  ELSE 0

LessThan(v, w) == Compare(v, w) < 0

\* semver.NewConstraint: a bare version is an equality constraint, * matches
\* every version, >=V is a lower bound; anything else is an error
NewConstraint(s) ==
  CASE s = "*" -> [op |-> "*", ver |-> <<>>]
    [] s = ">=2.0.0" -> [op |-> ">=", ver |-> <<2, 0, 0>>]
    [] NewVersion(s) # NoVersion -> [op |-> "=", ver |-> NewVersion(s)]
    [] OTHER -> NoConstraint

\* Constraints.Check
Check(c, v) ==
  CASE c.op = "*" -> TRUE
    [] c.op = "=" -> Compare(v, c.ver) = 0
    [] c.op = ">=" -> Compare(v, c.ver) >= 0
    [] OTHER -> FALSE

(***************************************************************************)
(* pkg/repo: BundleEntries and IndexFile                                   *)
(***************************************************************************)
\* the entries the model publishes: under foo every version, the unparsable
\* one with two different payloads; under bar a single version
BundleEntry ==
  {e \in [Name : Names, Version : Versions, Digest : Digests] :
     /\ e.Name = "bar" => e.Version = "2.0.0"
     /\ e.Digest = "d2" => e.Name = "foo" /\ e.Version = "bad"}

\* BundleEntries.Swap
Swap(c, i, j) == [c EXCEPT ![i] = c[j], ![j] = c[i]]

\* BundleEntries.Less: a failed parse of c[a] answers true, of c[b] false
Less(c, a, b) ==
  IF NewVersion(c[a].Version) = NoVersion THEN TRUE
  ELSE IF NewVersion(c[b].Version) = NoVersion THEN FALSE
  ELSE LessThan(NewVersion(c[a].Version), NewVersion(c[b].Version))

\* ReverseLess without the reversal: the order sort.Sort(versions) would use
ReverseLessForgotten(c, i, j) == Less(c, i, j)

\* sort.Reverse: Less(i, j) of the reversed order is Less(j, i)
ReverseLess(c, i, j) == Less(c, j, i)

\* the inner loop of sort's insertionSort: sink c[j] while it is less than
\* its left neighbour
RECURSIVE SinkLeft(_, _)
SinkLeft(c, j) ==
  IF j > 1 /\ ReverseLess(c, j, j - 1)
  THEN SinkLeft(Swap(c, j, j - 1), j - 1)
  ELSE c

\* sort.Sort on a slice of at most 12 elements is insertionSort
RECURSIVE insertionSort(_, _)
insertionSort(c, i) ==
  IF i > Len(c) THEN c ELSE insertionSort(SinkLeft(c, i), i + 1)

SortVersions(c) == insertionSort(c, 2)

\* IndexFile.SortEntries: every name's list is sorted in place
SortEntries(entries) == [n \in DOMAIN entries |-> SortVersions(entries[n])]

\* IndexFile.Add: append under e.Name, creating the key when absent
Add(entries, e) ==
  IF e.Name \notin DOMAIN entries
  THEN [n \in DOMAIN entries \cup {e.Name} |->
          IF n = e.Name THEN <<e>> ELSE entries[n]]
  ELSE [entries EXCEPT ![e.Name] = Append(@, e)]

\* firstMatch without the constraint.Check: the first entry whose version parses
RECURSIVE firstMatchUnchecked(_, _, _)
firstMatchUnchecked(vs, constraint, k) ==
  IF k > Len(vs) THEN 0
  ELSE IF NewVersion(vs[k].Version) = NoVersion THEN firstMatchUnchecked(vs, constraint, k + 1)
  ELSE k

\* the loop of Get: the first entry whose version parses and satisfies the
\* constraint
RECURSIVE firstMatch(_, _, _)
firstMatch(vs, constraint, k) ==
  IF k > Len(vs) THEN 0
  ELSE IF NewVersion(vs[k].Version) = NoVersion THEN firstMatch(vs, constraint, k + 1)
  ELSE IF Check(constraint, NewVersion(vs[k].Version)) THEN k
  ELSE firstMatch(vs, constraint, k + 1)

\* IndexFile.Get: the entry and the error it returns
Get(entries, name, version) ==
  IF name \notin DOMAIN entries THEN [entry |-> NoEntry, err |-> "ErrNoBundleName"]
  ELSE IF Len(entries[name]) = 0 THEN [entry |-> NoEntry, err |-> "ErrNoBundleVersion"]
  ELSE LET constraint == IF version = "" THEN NewConstraint("*") ELSE NewConstraint(version)
       IN IF constraint = NoConstraint THEN [entry |-> NoEntry, err |-> "improper constraint"]
          ELSE LET k == firstMatch(entries[name], constraint, 1)
               IN IF k = 0 THEN [entry |-> NoEntry, err |-> "No bundle version found"]
                  ELSE [entry |-> entries[name][k], err |-> "nil"]

\* IndexFile.Has
Has(entries, name, version) == Get(entries, name, version).err = "nil"

\* the loop of Merge over one name's list of f: append each entry that this
\* index does not already have
RECURSIVE mergeList(_, _, _)
mergeList(entries, cvs, k) ==
  IF k > Len(cvs) THEN entries
  ELSE LET cv == cvs[k]
       IN IF ~Has(entries, cv.Name, cv.Version)
          THEN mergeList(Add(entries, cv), cvs, k + 1)
          ELSE mergeList(entries, cvs, k + 1)

\* IndexFile.Merge: the lists of f, one name after the other
RECURSIVE mergeNames(_, _, _)
mergeNames(entries, f, todo) ==
  IF todo = {} THEN entries
  ELSE LET n == CHOOSE x \in todo : TRUE
       IN mergeNames(mergeList(entries, f[n], 1), f, todo \ {n})

Merge(entries, f) == mergeNames(entries, f, DOMAIN f)

\* NewIndexFile
NewIndexFile == [APIVersion |-> "v1", Entries |-> << >>]

\* a serialized index: a document that does not unmarshal, or the fields of
\* an IndexFile
Malformed == [APIVersion |-> "", Entries |-> << >>, malformed |-> TRUE]

\* loadIndex: unmarshal, then SortEntries
loadIndex(doc) ==
  IF doc.malformed THEN [i |-> [APIVersion |-> "", Entries |-> << >>], err |-> "unmarshal error"]
  ELSE [i |-> [APIVersion |-> doc.APIVersion, Entries |-> SortEntries(doc.Entries)],
        err |-> "nil"]

(***************************************************************************)
(* Sets of catalogs                                                        *)
(***************************************************************************)
SeqsUpTo(S, n) == UNION {[1..k -> S] : k \in 0..n}

RECURSIVE Total(_, _)
Total(entries, todo) ==
  IF todo = {} THEN 0
  ELSE LET n == CHOOSE x \in todo : TRUE
       IN Len(entries[n]) + Total(entries, todo \ {n})

Size(entries) == Total(entries, DOMAIN entries)

\* every Entries map with at most max entries, each listed under its own name
Catalogs(max) ==
  UNION {{f \in [S -> SeqsUpTo(BundleEntry, max)] :
            /\ \A n \in S : \A k \in 1..Len(f[n]) : f[n][k].Name = n
            /\ Size(f) <= max} : S \in SUBSET Names}

\* the catalogs handed to Merge
Others == Catalogs(MaxOther)

Documents == {Malformed} \cup
  {[APIVersion |-> v, Entries |-> f, malformed |-> FALSE] : v \in {"", "v1"}, f \in Others}

(***************************************************************************)
(* State                                                                   *)
(***************************************************************************)
VARIABLES
  index,       \* the IndexFile: APIVersion and Entries
  last,        \* the last call on the index: its arguments and what it returned
  pc,          \* where the install command's RunE stands
  flags,       \* args and the -f, -p, -d flags
  url,         \* the index-entry lookup URL of getBundleFile
  mirrors,     \* entry.URLs
  mi,          \* the position of the mirror loop
  bundlePath,  \* the manifest path bundleFileOrArg2 returned
  claim,       \* the claim c
  runErr,      \* err of inst.Run
  storeErr,    \* err2 of Store
  ret,         \* the error RunE returned
  io,          \* the requests, file accesses and calls so far, in order
  storeDir,    \* the files of the bundle store: name |-> bytes
  lastStore,   \* the last signAndWriteBundle call: its inputs and results
  dir,         \* the files of the directory GenerateFromDirectory reads
  gpc,         \* where GenerateFromDirectory stands
  bundles,     \* the globbed paths it has still to go through
  genIndex,    \* the Entries of its in-memory index
  tagFiles,    \* the files under repositories/: <<name, version>> |-> entry
  indexFile,   \* the contents of index.json
  genErr       \* the error it returned

indexVars == <<index, last>>
cliVars == <<pc, flags, url, mirrors, mi, bundlePath, claim, runErr, storeErr, ret, io>>
storeVars == <<storeDir, lastStore>>
genVars == <<dir, gpc, bundles, genIndex, tagFiles, indexFile, genErr>>
vars == <<index, last, pc, flags, url, mirrors, mi, bundlePath, claim, runErr, storeErr, ret, io,
          storeDir, lastStore, dir, gpc, bundles, genIndex, tagFiles, indexFile, genErr>>

NoCall == [op |-> "NewIndexFile", name |-> "", version |-> "", entry |-> NoEntry,
           err |-> "nil", f |-> << >>, doc |-> ""]

DoAdd ==
  \E e \in BundleEntry :
    /\ Size(index.Entries) < MaxEntries
    /\ index' = [index EXCEPT !.Entries = Add(index.Entries, e)]
    /\ last' = [NoCall EXCEPT !.op = "Add", !.entry = e]
    /\ UNCHANGED <<cliVars, storeVars, genVars>>

DoSortEntries ==
  /\ index' = [index EXCEPT !.Entries = SortEntries(index.Entries)]
  /\ last' = [NoCall EXCEPT !.op = "SortEntries"]
  /\ UNCHANGED <<cliVars, storeVars, genVars>>

DoGet ==
  \E name \in Names, version \in Constraints :
    LET r == Get(index.Entries, name, version)
    IN /\ last' = [NoCall EXCEPT !.op = "Get", !.name = name, !.version = version,
                                 !.entry = r.entry, !.err = r.err]
       /\ UNCHANGED index
       /\ UNCHANGED <<cliVars, storeVars, genVars>>

DoMerge ==
  \E f \in Others :
    LET merged == Merge(index.Entries, f)
    IN /\ Size(merged) <= MaxEntries
       /\ index' = [index EXCEPT !.Entries = merged]
       /\ last' = [NoCall EXCEPT !.op = "Merge", !.f = f]
       /\ UNCHANGED <<cliVars, storeVars, genVars>>

\* loadIndex builds a new IndexFile out of the document alone, so it is taken
\* where an index is constructed
DoLoadIndex ==
  \E doc \in Documents :
    LET r == loadIndex(doc)
    IN /\ last.op = "NewIndexFile"
       /\ index' = r.i
       /\ last' = [NoCall EXCEPT !.op = "loadIndex", !.err = r.err,
                                 !.doc = IF doc.malformed THEN "malformed"
                                         ELSE IF doc.APIVersion = "" THEN "no apiVersion"
                                         ELSE "apiVersion"]
       /\ UNCHANGED <<cliVars, storeVars, genVars>>

IndexNext == DoAdd \/ DoSortEntries \/ DoGet \/ DoMerge \/ DoLoadIndex


(***************************************************************************)
(* cmd/duffle install: bundle references                                   *)
(***************************************************************************)
\* most mirror URLs of an index entry
MaxMirrors == 2

\* error values are sequences of message parts; nil is the empty one
Nil == << >>

\* home.DefaultRepository(): the repository domain the home directory configures
DefaultRepository == "default.repo"

\* A bundle name as typed: the text before "://" (empty when there is no
\* separator), the "/"-separated parts of the name, the text after ":" (empty
\* when there is no tag) and whether an "@sha256:..." digest follows.
PathParts == {<<"bundle">>, <<"duffle", "example">>, <<"name.example.org", "bundle">>,
              <<"localhost", "bundle">>, <<"docker.io", "bundle">>, <<"Bundle">>}

BundleNames ==
  {r \in [proto : {"", "http"}, parts : PathParts, tag : {"", "1.0.0"}, digest : BOOLEAN] :
     r.digest => (r.proto = "" /\ r.parts = <<"name.example.org", "bundle">>)}

\* strings.ContainsAny(part, ".:") on the parts above
ContainsDotOrColon(part) == part \in {"name.example.org", "docker.io"}

\* strings.ToLower(part) == part on the parts above
IsLower(part) == part # "Bundle"

\* strings.SplitN(bundleName, "://", 2) and the default protocol
protoOf(bundleName) == IF bundleName.proto # "" THEN bundleName.proto ELSE "https"

\* reference.splitDockerDomain: a first part that is no host name is part of
\* the path and the domain is docker.io; a single-part path under docker.io
\* is put under library/
splitDockerDomain(parts) ==
  LET nohost == Len(parts) = 1 \/
                (~ContainsDotOrColon(parts[1]) /\ parts[1] # "localhost")
      domain == IF nohost THEN "docker.io" ELSE parts[1]
      remainder == IF nohost THEN parts ELSE Tail(parts)
  IN [domain |-> domain,
      path |-> IF domain = "docker.io" /\ Len(remainder) = 1
               THEN <<"library">> \o remainder ELSE remainder]

NoRef == [domain |-> "", path |-> << >>, tag |-> "", digest |-> FALSE]

\* reference.ParseNormalizedNamed: NoRef when the name is not lower case
ParseNormalizedNamed(name) ==
  LET d == splitDockerDomain(name.parts)
  IN IF \E k \in 1..Len(d.path) : ~IsLower(d.path[k]) THEN NoRef
     ELSE [domain |-> d.domain, path |-> d.path, tag |-> name.tag, digest |-> name.digest]

\* reference.IsNameOnly
IsNameOnly(ref) == ref.tag = "" /\ ~ref.digest

\* the reference getBundleFile goes on with: tagged latest when name-only,
\* NoRef when it has a digest and no tag
taggedRef(ref) ==
  IF IsNameOnly(ref) THEN [ref EXCEPT !.tag = "latest"]
  ELSE IF ref.tag # "" THEN ref
  ELSE NoRef

\* path parts joined with "/"
RECURSIVE JoinPath(_)
JoinPath(parts) ==
  IF Len(parts) <= 1 THEN parts
  ELSE <<parts[1], "/">> \o JoinPath(Tail(parts))

\* the domain getBundleFile uses: reference.Domain, the default repository
\* when that is empty
domainOf(ref) == IF ref.domain = "" THEN DefaultRepository ELSE ref.domain

\* fmt.Sprintf("%s://%s/repositories/%s/tags/%s", proto, domain, path, tag)
lookupURL(proto, ref) ==
  <<proto, "://", domainOf(ref), "/repositories/">> \o JoinPath(ref.path)
    \o <<"/tags/", ref.tag>>

\* getBundleFile up to its first request: the error, or the URL to fetch
resolveURL(bundleName) ==
  LET normalizedRef == ParseNormalizedNamed(bundleName)
      ref == taggedRef(normalizedRef)
  IN IF normalizedRef = NoRef
       THEN [err |-> <<"failed to parse image name">>, url |-> << >>]
     ELSE IF ref = NoRef
       THEN [err |-> <<"unsupported image name">>, url |-> << >>]
     ELSE [err |-> Nil, url |-> lookupURL(protoOf(bundleName), ref)]

(***************************************************************************)
(* cmd/duffle install: the command                                         *)
(***************************************************************************)
InstallationName == "my_release"

\* the positional arguments: none, NAME, NAME BUNDLE, and one too many
ArgLists ==
  {<< >>, <<InstallationName>>} \cup
  {<<InstallationName, b>> : b \in BundleNames} \cup
  {<<InstallationName, b, b>> : b \in {x \in BundleNames : x.parts = <<"bundle">> /\ x.proto = ""}}

\* bundleFileOrArg2's switch: the error, or where the bundle comes from
bundleFileOrArg2(args, bundleFile) ==
  IF Len(args) < 1 THEN [err |-> <<"This command requires at least one argument">>, from |-> ""]
  ELSE IF Len(args) = 2 /\ bundleFile # ""
    THEN [err |-> <<"please use either -f or specify a BUNDLE, but not both">>, from |-> ""]
  ELSE IF Len(args) < 2 /\ bundleFile = ""
    THEN [err |-> <<"required arguments are NAME and BUNDLE or file">>, from |-> ""]
  ELSE IF Len(args) = 2 THEN [err |-> Nil, from |-> "getBundleFile"]
  ELSE [err |-> Nil, from |-> "file"]

\* the manifests loadBundle can return: image type and image reference
Bundles ==
  [Name : {"helloazure"}, Version : {"0.1.0"}, ImageType : {"docker", "other"},
   Image : {"img:1", "img"}]

\* validateImage and validateDockerish: strings.Contains(image, ":")
validateImage(img) ==
  IF img.ImageType \in {"docker", "oci"} /\ img.Image # "img:1"
  THEN <<"version is required">> ELSE Nil

\* filepath.Ext of the parameter files
Ext(file) ==
  CASE file = "values.toml" -> ".toml"
    [] file = "values.json" -> ".json"
    [] file = "values.yaml" -> ".yaml"
    [] OTHER -> ""

\* parseValues reading the file before it looks at the extension
readsFileAlways(file) == TRUE

\* parseValues calls ioutil.ReadFile in the .toml and .json cases only
readsFile(file) == Ext(file) \in {".toml", ".json"}

\* parseValues: reading is "ok", "read error" or "decode error"
parseValues(file, reading) ==
  IF Ext(file) \in {".toml", ".json"}
  THEN (IF reading = "ok" THEN Nil ELSE <<reading>>)
  ELSE <<"no decoder for ", Ext(file)>>

\* the claim RunE builds
NoClaim == [Name |-> "", Bundle |-> "", ImageType |-> "", Parameters |-> ""]

\* an event of the run: what was done, on what, and how it ended
Event(ev, arg, out) == [ev |-> ev, arg |-> arg, out |-> out]

\* line 124 without its being unconditional: the claim is stored on success only
StoreOnSuccess(trace, c, err) ==
  IF err = Nil THEN Append(trace, Event("Store", c, "")) ELSE trace

\* line 124: claimStorage().Store(*c), whatever inst.Run returned
StoreAfterRun(trace, c, err) == Append(trace, Event("Store", c, ""))

\* lines 125-128 with the two errors looked at the other way round
ReturnStoreErrorFirst(err, err2) ==
  IF err2 # Nil THEN err2
  ELSE IF err # Nil THEN <<"Install step failed: ">> \o err
  ELSE Nil

\* lines 125-128: the error RunE returns after the Store
installReturn(err, err2) ==
  IF err # Nil THEN <<"Install step failed: ">> \o err ELSE err2

NoFlags == [args |-> << >>, bundleFile |-> "", valuesFile |-> "", installDriver |-> ""]

\* the k-th mirror URL of an entry
MirrorURL(k) == <<"mirror", k>>

\* RunE returns err
Return(err) == pc' = "done" /\ ret' = err

\* lines 74-77 and 139-151, and getBundleFile up to its first request
Start ==
  /\ pc = "RunE"
  /\ \E args \in ArgLists, bundleFile \in {"", "bundle.json"},
        valuesFile \in {"", "values.toml", "values.json", "values.yaml"},
        installDriver \in {"docker", "nodriver"} :
       LET src == bundleFileOrArg2(args, bundleFile)
           r == resolveURL(args[2])
       IN /\ flags' = [args |-> args, bundleFile |-> bundleFile,
                       valuesFile |-> valuesFile, installDriver |-> installDriver]
          /\ IF src.err # Nil
               THEN Return(src.err) /\ UNCHANGED <<url, bundlePath>>
             ELSE IF src.from = "file"
               THEN /\ pc' = "loadBundle"
                    /\ bundlePath' = <<bundleFile>>
                    /\ UNCHANGED <<url, ret>>
             ELSE IF r.err # Nil
               THEN Return(r.err) /\ UNCHANGED <<url, bundlePath>>
             ELSE /\ pc' = "lookup"
                  /\ url' = r.url
                  /\ UNCHANGED <<bundlePath, ret>>
  /\ UNCHANGED <<storeVars, genVars>>
  /\ UNCHANGED <<index, last, mirrors, mi, claim, runErr, storeErr, io>>

\* the error after the mirror loop
noneSucceeded(urls) == <<"unable to fetch: no requests to the following URLs succeeded: ", urls>>

\* lines 237-250: fetch and decode the index entry; an entry without URLs
\* falls through the loop to line 274
Lookup ==
  /\ pc = "lookup"
  /\ \/ \E out \in {"network error", "non-200", "decode error"} :
          /\ io' = Append(io, Event("GET", url, out))
          /\ Return(<<out>>)
          /\ UNCHANGED <<mirrors, mi>>
     \/ \E n \in 0..MaxMirrors :
          /\ io' = Append(io, Event("GET", url, "200"))
          /\ mirrors' = [k \in 1..n |-> MirrorURL(k)]
          /\ IF n = 0
               THEN Return(noneSucceeded(<< >>)) /\ UNCHANGED mi
               ELSE pc' = "mirror" /\ mi' = 1 /\ UNCHANGED ret
  /\ UNCHANGED <<storeVars, genVars>>
  /\ UNCHANGED <<index, last, flags, url, bundlePath, claim, runErr, storeErr>>

\* lines 252-274: one turn of the mirror loop
Mirror ==
  /\ pc = "mirror"
  /\ \/ \E out \in {"network error", "parse error"} :
          /\ io' = Append(io, Event("GET", mirrors[mi], out))
          /\ Return(<<out>>)
          /\ UNCHANGED <<mi, bundlePath>>
     \/ /\ io' = io \o <<Event("GET", mirrors[mi], "non-200"),
                         Event("log", mirrors[mi], "non-200")>>
        /\ IF mi = Len(mirrors)
             THEN Return(noneSucceeded(mirrors)) /\ UNCHANGED mi
             ELSE mi' = mi + 1 /\ UNCHANGED <<pc, ret>>
        /\ UNCHANGED bundlePath
     \/ \E b \in Bundles, w \in {"ok", "write error"} :
          LET file == <<"cache/", b.Name, "-", b.Version, ".json">>
          IN /\ io' = io \o <<Event("GET", mirrors[mi], "200"),
                              Event("WriteFile", file, w)>>
             /\ IF w = "ok"
                  THEN pc' = "loadBundle" /\ bundlePath' = file /\ UNCHANGED ret
                  ELSE Return(<<w>>) /\ UNCHANGED bundlePath
             /\ UNCHANGED mi
  /\ UNCHANGED <<storeVars, genVars>>
  /\ UNCHANGED <<index, last, flags, url, mirrors, claim, runErr, storeErr>>

\* lines 78-87: loadBundle and validateImage
LoadBundle ==
  /\ pc = "loadBundle"
  /\ \/ /\ io' = Append(io, Event("loadBundle", bundlePath, "error"))
        /\ Return(<<"load error">>)
        /\ UNCHANGED claim
     \/ \E b \in Bundles :
          /\ io' = Append(io, Event("loadBundle", bundlePath, "ok"))
          /\ claim' = [NoClaim EXCEPT !.Bundle = b.Image, !.ImageType = b.ImageType]
          /\ IF validateImage(b) # Nil
               THEN Return(validateImage(b))
               ELSE pc' = "prepareDriver" /\ UNCHANGED ret
  /\ UNCHANGED <<storeVars, genVars>>
  /\ UNCHANGED <<index, last, flags, url, mirrors, mi, bundlePath, runErr, storeErr>>

\* lines 89-97: prepareDriver and loadCredentials
PrepareDriver ==
  /\ pc = "prepareDriver"
  /\ IF flags.installDriver = "nodriver"
       THEN Return(<<"unsupported driver">>) /\ UNCHANGED io
       ELSE \E out \in {"ok", "error"} :
              /\ io' = Append(io, Event("loadCredentials", << >>, out))
              /\ IF out = "ok"
                   THEN pc' = "newClaim" /\ UNCHANGED ret
                   ELSE Return(<<"credentials error">>)
  /\ UNCHANGED <<storeVars, genVars>>
  /\ UNCHANGED <<index, last, flags, url, mirrors, mi, bundlePath, claim, runErr, storeErr>>

\* lines 101-113: claim.New and parseValues
NewClaim ==
  /\ pc = "newClaim"
  /\ IF flags.valuesFile = ""
       THEN /\ claim' = [claim EXCEPT !.Name = flags.args[1]]
            /\ pc' = "Run"
            /\ UNCHANGED <<ret, io>>
       ELSE \E reading \in {"ok", "read error", "decode error"} :
              LET err == parseValues(flags.valuesFile, reading)
              IN /\ io' = IF readsFile(flags.valuesFile)
                          THEN Append(io, Event("ReadFile", <<flags.valuesFile>>, reading))
                          ELSE io
                 /\ IF err # Nil
                      THEN Return(err) /\ UNCHANGED claim
                      ELSE /\ claim' = [claim EXCEPT !.Name = flags.args[1],
                                             !.Parameters = flags.valuesFile]
                           /\ pc' = "Run"
                           /\ UNCHANGED ret
  /\ UNCHANGED <<storeVars, genVars>>
  /\ UNCHANGED <<index, last, flags, url, mirrors, mi, bundlePath, runErr, storeErr>>

\* lines 115-119: inst.Run(c, creds)
Run ==
  /\ pc = "Run"
  /\ \E err \in {Nil, <<"driver error">>} :
       /\ runErr' = err
       /\ io' = Append(io, Event("Run", claim, IF err = Nil THEN "ok" ELSE "error"))
  /\ pc' = "Store"
  /\ UNCHANGED <<storeVars, genVars>>
  /\ UNCHANGED <<index, last, flags, url, mirrors, mi, bundlePath, claim, storeErr, ret>>

\* lines 124-128: the Store and the return
Store ==
  /\ pc = "Store"
  /\ \E err2 \in {Nil, <<"store error">>} :
       /\ storeErr' = err2
       /\ io' = StoreAfterRun(io, claim, runErr)
       /\ Return(installReturn(runErr, err2))
  /\ UNCHANGED <<storeVars, genVars>>
  /\ UNCHANGED <<index, last, flags, url, mirrors, mi, bundlePath, claim, runErr>>

CliNext ==
  Start \/ Lookup \/ Mirror \/ LoadBundle \/ PrepareDriver \/ NewClaim \/ Run \/ Store

(***************************************************************************)
(* pkg/store/local: signAndWriteBundle                                     *)
(***************************************************************************)
\* the bundle handed to the store
StoredBundles == [Name : {"foo"}, Version : {"1.0.0"}]

\* fmt.Sprintf("%v", bf) of a *bundle.Bundle
Render(bf) == <<"&{", bf.Name, bf.Version, "}">>

\* the manifest bytes the bundle was decoded from: its JSON document
ManifestBytes(bf) == <<"{", "\"name\":", bf.Name, "\"version\":", bf.Version, "}">>

\* digest.OfBuffer: the content hash of the bytes, as its hex string
OfBuffer(data) == <<"sha256:">> \o data

NoDigest == << >>

\* the secret key rings signature.LoadKeyRing can return
KeyRings == {<< >>, <<"alice">>, <<"alice", "bob">>}

\* the signer identities asked for: none, one of the ring, one of no ring
Signers == {"", "bob", "carol"}

NoKey == ""

\* KeyRing.Key(signer): the key of the ring with that identity
RECURSIVE Key(_, _, _)
Key(kr, signer, k) ==
  IF k > Len(kr) THEN NoKey
  ELSE IF kr[k] = signer THEN kr[k]
  ELSE Key(kr, signer, k + 1)

\* Signer.Clearsign: the bundle wrapped in a clear-text signature of the key
Clearsign(key, bf) ==
  <<"-----BEGIN PGP SIGNED MESSAGE-----">> \o Render(bf) \o <<"signed by ", key>>

\* selectKey with a signer that matches no key falling back to the first key
selectKeyOrFirst(kr, signer) ==
  IF signer # "" /\ Key(kr, signer, 1) # NoKey THEN Key(kr, signer, 1) ELSE kr[1]

\* lines 46-53: the first key of the ring unless a signer is named
selectKey(kr, signer) ==
  IF signer # "" THEN Key(kr, signer, 1) ELSE kr[1]

\* what can go wrong in one call: nothing, loading the key ring, signing,
\* hashing, opening the file, or writing it once it is opened and truncated
Faults == {"none", "keyring", "sign", "digest", "open", "write"}

\* ioutil.WriteFile: open with O_CREATE|O_TRUNC, write, close. A failed open
\* leaves the directory as it was; a failed write leaves the file truncated,
\* holding none of the data or all but its end.
WriteFile(files, name, data, fault, kept) ==
  IF fault = "open" THEN files
  ELSE LET bytes == IF fault = "write" THEN SubSeq(data, 1, kept) ELSE data
       IN [n \in DOMAIN files \cup {name} |-> IF n = name THEN bytes ELSE files[n]]

\* the result of a call that returns before it writes
Failed(files, msg) ==
  [d |-> NoDigest, err |-> <<msg>>, files |-> files, key |-> NoKey, data |-> << >>]

\* LocalStore.signAndWriteBundle: the digest and error it returns, the store
\* directory after it, the key it signed with and the bytes it meant to write
signAndWriteBundle(files, bf, insecure, signer, kr, fault, kept) ==
  IF insecure
  THEN LET data == Render(bf)
           d == OfBuffer(data)
       IN IF fault = "digest" THEN Failed(files, "cannot compute digest from bundle")
          ELSE [d |-> d,
                err |-> IF fault \in {"open", "write"} THEN <<fault>> ELSE Nil,
                files |-> WriteFile(files, d, data, fault, kept),
                key |-> NoKey, data |-> data]
  ELSE IF fault = "keyring" THEN Failed(files, "cannot load keyring")
  ELSE IF Len(kr) = 0 THEN Failed(files, "no signing keys are present in the keyring")
  ELSE LET key == selectKey(kr, signer)
           data == Clearsign(key, bf) \o <<"\n">>
           d == OfBuffer(data)
       IN IF key = NoKey THEN Failed(files, "key not found")
          ELSE IF fault = "sign" THEN Failed(files, "cannot sign bundle")
          ELSE IF fault = "digest" THEN Failed(files, "cannot compute digest from bundle")
          ELSE [d |-> d,
                err |-> IF fault \in {"open", "write"} THEN <<fault>> ELSE Nil,
                files |-> WriteFile(files, d, data, fault, kept),
                key |-> key, data |-> data]

NoStoreCall ==
  [op |-> "", bf |-> [Name |-> "", Version |-> ""], insecure |-> FALSE, signer |-> "",
   kr |-> << >>, fault |-> "none", d |-> NoDigest, err |-> Nil, key |-> NoKey, data |-> << >>]

\* one call of signAndWriteBundle
StoreSigned ==
  /\ \E bf \in StoredBundles, insecure \in BOOLEAN, signer \in Signers,
        kr \in KeyRings, fault \in Faults :
     \E kept \in IF fault = "write" THEN {0, 3} ELSE {0} :
       LET r == signAndWriteBundle(storeDir, bf, insecure, signer, kr, fault, kept)
       IN /\ storeDir' = r.files
          /\ lastStore' = [op |-> "signAndWriteBundle", bf |-> bf, insecure |-> insecure,
                           signer |-> signer, kr |-> kr, fault |-> fault,
                           d |-> r.d, err |-> r.err, key |-> r.key, data |-> r.data]
  /\ UNCHANGED <<indexVars, cliVars, genVars>>

StoreNext == StoreSigned

(***************************************************************************)
(* pkg/repo: GenerateFromDirectory                                         *)
(***************************************************************************)
\* A path is the sequence of its elements below dir, an element the sequence
\* of the pieces of its name; the listing is in the order filepath.Glob
\* returns names, sorted within each directory.
IndexPath == <<<<"index", ".json">>>>

Listing ==
  << <<<<"bar", ".json">>>>,
     <<<<"foo-", "index", ".json">>>>,
     IndexPath,
     <<<<"sub">>, <<"foo", ".json">>>>,
     <<<<"sub">>, <<"index", ".json">>>>,
     <<<<"sub">>, <<"deep">>, <<"baz", ".json">>>> >>

Paths == {Listing[k] : k \in DOMAIN Listing}

Last(q) == q[Len(q)]

\* the path as one string: the pieces of its elements, "/" between elements
RECURSIVE Flat(_)
Flat(path) ==
  IF Len(path) = 1 THEN path[1]
  ELSE path[1] \o <<"/">> \o Flat(Tail(path))

\* strings.HasSuffix
HasSuffix(str, suffix) ==
  /\ Len(str) >= Len(suffix)
  /\ SubSeq(str, Len(str) - Len(suffix) + 1, Len(str)) = suffix

\* what a file holds: nothing that decodes, a bundle manifest, or a catalog
Missing == [kind |-> "missing", Name |-> "", Version |-> "", rev |-> ""]
Garbage == [kind |-> "garbage", Name |-> "", Version |-> "", rev |-> ""]
OldCatalog == [kind |-> "catalog", Name |-> "", Version |-> "", rev |-> ""]
Manifest(name, version, rev) ==
  [kind |-> "manifest", Name |-> name, Version |-> version, rev |-> rev]

\* the contents each path of the directory can have
FileContents(path) ==
  CASE path = Listing[1] ->
         {Missing, Garbage, Manifest("bar", "2.0.0", "a"), Manifest("foo", "1.2.3", "a")}
    [] path = Listing[2] -> {Missing, Manifest("foo", "2.0.0", "a")}
    [] path = Listing[3] -> {Missing, OldCatalog}
    [] path = Listing[4] ->
         {Missing, Manifest("foo", "1.2.3", "b"), Manifest("foo", "2.0.0", "a")}
    [] path = Listing[5] -> {Missing, Manifest("bar", "2.0.0", "a")}
    [] OTHER -> {Missing, Manifest("bar", "2.0.0", "a")}

Directories == {d \in [Paths -> UNION {FileContents(q) : q \in Paths}] :
                  \A q \in Paths : d[q] \in FileContents(q)}

\* filepath.Glob(dir/<depth - 1 times "*">/*.json): the files that many
\* elements below dir whose name ends in .json, in order
RECURSIVE GlobFrom(_, _, _)
GlobFrom(d, depth, k) ==
  IF k > Len(Listing) THEN << >>
  ELSE LET path == Listing[k]
           match == /\ Len(path) = depth
                    /\ d[path] # Missing
                    /\ HasSuffix(Last(path), <<".json">>)
       IN (IF match THEN <<path>> ELSE << >>) \o GlobFrom(d, depth, k + 1)

\* lines 342-350: "*.json" and then "**/*.json", which Glob reads as "*/*.json"
Glob(d) == GlobFrom(d, 1, 1) \o GlobFrom(d, 2, 1)

\* provenance.DigestFile: the hash of the bytes of the file
DigestFile(content) == <<"sha256:", content.Name, content.Version, content.rev>>

\* lines 369-373 and 401: the entry of a loaded bundle
EntryOf(content) ==
  [Name |-> content.Name, Version |-> content.Version, Digest |-> DigestFile(content)]

\* a file cut short by a failed write
Truncated == [Name |-> "", Version |-> "", Digest |-> << >>]

NoFile == [exists |-> FALSE, whole |-> FALSE, Entries |-> << >>]

\* index.json as an earlier run left it
OldIndexFile == [exists |-> TRUE, whole |-> TRUE, Entries |-> << >>]

\* index.json before the run
IndexFileOf(d) == IF d[IndexPath] = Missing THEN NoFile ELSE OldIndexFile

\* a file written under repositories/<name>/tags/<version>
WriteTag(files, e, content) ==
  [k \in DOMAIN files \cup {<<e.Name, e.Version>>} |->
     IF k = <<e.Name, e.Version>> THEN content ELSE files[k]]

\* what can go wrong with one bundle file
BundleFaults == {"none", "load", "digest", "mkdir", "open", "write"}

\* lines 342-352: the two globs and the new index
GenStart ==
  /\ gpc = "GenerateFromDirectory"
  /\ \E d \in Directories :
       /\ dir' = d
       /\ bundles' = Glob(d)
       /\ indexFile' = IndexFileOf(d)
  /\ genIndex' = NewIndexFile.Entries
  /\ gpc' = "range bundles"
  /\ UNCHANGED <<tagFiles, genErr>>
  /\ UNCHANGED <<indexVars, cliVars, storeVars>>

\* lines 355-358: a path that ends in "index.json" is passed over
GenSkip ==
  /\ gpc = "range bundles" /\ bundles # << >>
  /\ HasSuffix(Flat(Head(bundles)), <<"index", ".json">>)
  /\ bundles' = Tail(bundles)
  /\ UNCHANGED <<dir, gpc, genIndex, tagFiles, indexFile, genErr>>
  /\ UNCHANGED <<indexVars, cliVars, storeVars>>

\* the run returns err; the rest of bundles is not looked at
GenReturn(err) == gpc' = "done" /\ genErr' = err /\ UNCHANGED bundles

\* lines 360-418: one bundle file is loaded, hashed, added to the index and
\* written as a tag file
GenBundle ==
  /\ gpc = "range bundles" /\ bundles # << >>
  /\ ~HasSuffix(Flat(Head(bundles)), <<"index", ".json">>)
  /\ LET content == dir[Head(bundles)]
         entry == EntryOf(content)
     IN \E fault \in BundleFaults :
          IF content.kind # "manifest" \/ fault = "load"
          THEN GenReturn(<<"load">>) /\ UNCHANGED <<genIndex, tagFiles>>
          ELSE IF fault = "digest"
          THEN GenReturn(<<"digest">>) /\ UNCHANGED <<genIndex, tagFiles>>
          ELSE IF fault \in {"mkdir", "open"}
          THEN GenReturn(<<fault>>) /\ genIndex' = Add(genIndex, entry) /\ UNCHANGED tagFiles
          ELSE IF fault = "write"
          THEN /\ GenReturn(<<"write">>)
               /\ genIndex' = Add(genIndex, entry)
               /\ tagFiles' = WriteTag(tagFiles, entry, Truncated)
          ELSE /\ genIndex' = Add(genIndex, entry)
               /\ tagFiles' = WriteTag(tagFiles, entry, entry)
               /\ bundles' = Tail(bundles)
               /\ UNCHANGED <<gpc, genErr>>
  /\ UNCHANGED <<dir, indexFile>>
  /\ UNCHANGED <<indexVars, cliVars, storeVars>>

\* lines 420-424: the entries are sorted and index.json is written
GenWriteIndex ==
  /\ gpc = "range bundles" /\ bundles = << >>
  /\ genIndex' = SortEntries(genIndex)
  /\ \E fault \in {"none", "open", "write"} :
       /\ indexFile' =
            CASE fault = "none" ->
                   [exists |-> TRUE, whole |-> TRUE, Entries |-> SortEntries(genIndex)]
              [] fault = "open" -> indexFile
              [] OTHER -> [exists |-> TRUE, whole |-> FALSE, Entries |-> << >>]
       /\ genErr' = IF fault = "none" THEN Nil ELSE <<fault>>
  /\ gpc' = "done"
  /\ UNCHANGED <<dir, bundles, tagFiles>>
  /\ UNCHANGED <<indexVars, cliVars, storeVars>>

GenNext == GenStart \/ GenSkip \/ GenBundle \/ GenWriteIndex

(***************************************************************************)
(* Specifications                                                          *)
(***************************************************************************)
\* a new index, the install command about to run, an empty bundle store and
\* GenerateFromDirectory about to run
Init ==
  /\ index = NewIndexFile
  /\ last = NoCall
  /\ pc = "RunE"
  /\ flags = NoFlags
  /\ url = << >>
  /\ mirrors = << >>
  /\ mi = 0
  /\ bundlePath = << >>
  /\ claim = NoClaim
  /\ runErr = Nil
  /\ storeErr = Nil
  /\ ret = Nil
  /\ io = << >>
  /\ storeDir = << >>
  /\ lastStore = NoStoreCall
  /\ dir = << >>
  /\ gpc = "GenerateFromDirectory"
  /\ bundles = << >>
  /\ genIndex = << >>
  /\ tagFiles = << >>
  /\ indexFile = NoFile
  /\ genErr = Nil

\* the index of pkg/repo, everything else left where it starts
SpecIndex == Init /\ [][IndexNext]_vars

\* one run of duffle install, everything else left where it starts
SpecInstall == Init /\ [][CliNext]_vars

\* calls of signAndWriteBundle on one store, everything else left where it starts
SpecStore == Init /\ [][StoreNext]_vars

\* one run of GenerateFromDirectory, everything else left where it starts
SpecGenerate == Init /\ [][GenNext]_vars

(***************************************************************************)
(* Properties of the index                                                 *)
(***************************************************************************)
Parses(e) == NewVersion(e.Version) # NoVersion

\* the list holds an entry with exactly this version string
Present(entries, n, v) ==
  n \in DOMAIN entries /\ \E k \in 1..Len(entries[n]) : entries[n][k].Version = v

Count(c, e) == Cardinality({k \in 1..Len(c) : c[k] = e})

CountVersion(entries, n, v) ==
  IF n \in DOMAIN entries
  THEN Cardinality({k \in 1..Len(entries[n]) : entries[n][k].Version = v})
  ELSE 0

IsPrefix(c, d) == Len(c) <= Len(d) /\ \A k \in 1..Len(c) : c[k] = d[k]

IsPermutation(c, d) == Len(c) = Len(d) /\ \A e \in BundleEntry : Count(c, e) = Count(d, e)

\* canonical order: no entry is followed by one with a higher version, and
\* nothing that parses follows an entry that does not
IsCanonical(c) ==
  \A k \in 1..(Len(c) - 1) :
    /\ Parses(c[k + 1]) => Parses(c[k])
    /\ Parses(c[k]) /\ Parses(c[k + 1]) =>
         ~LessThan(NewVersion(c[k].Version), NewVersion(c[k + 1].Version))

AllCanonical(entries) == \A n \in DOMAIN entries : IsCanonical(entries[n])

\* the entries of c that compare equal to the parse result key, in c's order
EqualTo(c, key) ==
  LET Same(e) == NewVersion(e.Version) = key IN SelectSeq(c, Same)

Keys == {NewVersion(v) : v \in Versions}

\* C3: after A.Merge(B), Has(n, v) is true for every (n, v) that was in A or
\* in B, unparsable versions included; every list of A is kept as it was, new
\* entries only appended; and no (name, version) A held is appended again.
C3_MergeUnionFirstWriteWins ==
  [][last'.op = "Merge" =>
       /\ \A n \in Names, v \in Versions :
            (Present(index.Entries, n, v) \/ Present(last'.f, n, v))
              => Has(index'.Entries, n, v)
       /\ \A n \in DOMAIN index.Entries :
            n \in DOMAIN index'.Entries /\ IsPrefix(index.Entries[n], index'.Entries[n])
       /\ \A n \in Names, v \in Versions :
            Present(index.Entries, n, v)
              => CountVersion(index'.Entries, n, v) = CountVersion(index.Entries, n, v)
    ]_vars

\* C4: after SortEntries every name's list is in descending version order with
\* the unparsable entries last, and is a permutation of the list before.
C4_SortEntriesCanonical ==
  [][last'.op = "SortEntries" =>
       /\ DOMAIN index'.Entries = DOMAIN index.Entries
       /\ \A n \in DOMAIN index.Entries :
            /\ IsCanonical(index'.Entries[n])
            /\ IsPermutation(index.Entries[n], index'.Entries[n])
    ]_vars

\* SortEntries has run on a list of three with two unparsable entries and the
\* parsable one was not in front
C4_Witness ==
  /\ last.op = "SortEntries"
  /\ "foo" \in DOMAIN index.Entries
  /\ Len(index.Entries["foo"]) = 3
  /\ Parses(index.Entries["foo"][1])
  /\ ~Parses(index.Entries["foo"][2])
  /\ ~Parses(index.Entries["foo"][3])
  /\ index.Entries["foo"][2] # index.Entries["foo"][3]

\* C5: SortEntries leaves a sorted catalog exactly as it is, and entries that
\* compare equal (same version, or both unparsable) keep their relative order.
C5_SortEntriesIdempotentStable ==
  [][last'.op = "SortEntries" =>
       /\ AllCanonical(index.Entries) => index'.Entries = index.Entries
       /\ \A n \in DOMAIN index.Entries : \A key \in Keys :
            EqualTo(index'.Entries[n], key) = EqualTo(index.Entries[n], key)
    ]_vars

\* C6: on a sorted list, Get with the empty version returns an entry of the
\* highest parsable version; Get with a constraint returns the first entry, in
\* list order, that parses and satisfies it; Get with an exact version returns
\* an entry of that version when there is one.
C6_GetOnSorted ==
  (last.op = "Get" /\ last.name \in DOMAIN index.Entries
     /\ IsCanonical(index.Entries[last.name])) =>
    LET vs == index.Entries[last.name]
        c == NewConstraint(IF last.version = "" THEN "*" ELSE last.version)
        Sat == {k \in 1..Len(vs) : Parses(vs[k]) /\ Check(c, NewVersion(vs[k].Version))}
    IN /\ (last.version = "" /\ \E k \in 1..Len(vs) : Parses(vs[k])) =>
            /\ last.err = "nil"
            /\ \E k \in 1..Len(vs) : vs[k] = last.entry
            /\ Parses(last.entry)
            /\ \A k \in 1..Len(vs) : Parses(vs[k]) =>
                 ~LessThan(NewVersion(last.entry.Version), NewVersion(vs[k].Version))
       /\ (c # NoConstraint /\ Sat # {}) =>
            /\ last.err = "nil"
            /\ \E k \in Sat : vs[k] = last.entry /\ \A j \in Sat : k <= j
       /\ (NewVersion(last.version) # NoVersion /\
           \E k \in 1..Len(vs) : NewVersion(vs[k].Version) = NewVersion(last.version)) =>
            /\ last.err = "nil"
            /\ NewVersion(last.entry.Version) = NewVersion(last.version)

\* Get("foo", "1.2.3") on a sorted list that starts with a higher version and
\* ends with an unparsable one
C6_Witness ==
  /\ last.op = "Get" /\ last.name = "foo" /\ last.version = "1.2.3"
  /\ "foo" \in DOMAIN index.Entries
  /\ IsCanonical(index.Entries["foo"])
  /\ Len(index.Entries["foo"]) = 3
  /\ index.Entries["foo"][1].Version = "2.0.0"
  /\ ~Parses(index.Entries["foo"][3])
  /\ last.err = "nil"
  /\ last.entry = index.Entries["foo"][2]

\* C7: Get fails with ErrNoBundleName when the name is absent, with
\* ErrNoBundleVersion when the list is empty and when no entry satisfies the
\* version, and with the constraint's parse error when the version is malformed.
C7_GetErrorKinds ==
  last.op = "Get" =>
    LET c == NewConstraint(IF last.version = "" THEN "*" ELSE last.version)
    IN IF last.name \notin DOMAIN index.Entries THEN last.err = "ErrNoBundleName"
       ELSE IF Len(index.Entries[last.name]) = 0 THEN last.err = "ErrNoBundleVersion"
       ELSE IF c = NoConstraint THEN last.err = "improper constraint"
       ELSE (\A k \in 1..Len(index.Entries[last.name]) :
               ~(Parses(index.Entries[last.name][k]) /\
                 Check(c, NewVersion(index.Entries[last.name][k].Version))))
              => last.err = "ErrNoBundleVersion"

\* C8: loading a document without apiVersion fails with ErrNoAPIVersion, and a
\* successful load returns sorted lists.
C8_LoadRequiresAPIVersion ==
  last.op = "loadIndex" =>
    /\ last.doc = "no apiVersion" => last.err = "ErrNoAPIVersion"
    /\ last.err = "nil" => AllCanonical(index.Entries)

(***************************************************************************)
(* Properties of the install command                                       *)
(***************************************************************************)
\* the positions in io of the events named ev
At(ev) == {k \in 1..Len(io) : io[k].ev = ev}

\* C1: once the driver's install action has run, Store is called exactly once
\* with the claim, after the driver returned and before RunE returns, whether
\* the driver failed or not; when the driver failed and Store succeeded, RunE
\* returns the wrapped driver error.
C1_StoreOncePerAttempt ==
  /\ Cardinality(At("Store")) <= 1
  /\ \A s \in At("Store") :
       /\ io[s].arg = claim
       /\ \E r \in At("Run") : r < s /\ io[r].arg = io[s].arg
  /\ (pc = "done" /\ At("Run") # {}) => Cardinality(At("Store")) = 1
  /\ (pc = "done" /\ runErr # Nil /\ storeErr = Nil) =>
       ret = <<"Install step failed: ">> \o runErr

\* RunE returned after the driver failed and the claim was stored
C1_Witness ==
  /\ pc = "done"
  /\ runErr # Nil
  /\ storeErr = Nil
  /\ \E r \in At("Run"), s \in At("Store") : r < s /\ io[r].out = "error"

MirrorGets ==
  LET IsMirrorGet(e) == e.ev = "GET" /\ e.arg # url IN SelectSeq(io, IsMirrorGet)

\* C9: the mirrors are fetched in list order; a fetch that fails, by status or
\* by a network failure, is skipped and the next mirror is fetched; nothing is
\* fetched after the first success; and the error naming the URLs is returned
\* only when every mirror has failed.
C9_MirrorFallback ==
  /\ \A k \in 1..Len(MirrorGets) : MirrorGets[k].arg = mirrors[k]
  /\ pc = "done" =>
       \A k \in 1..Len(MirrorGets) :
         (MirrorGets[k].out \in {"non-200", "network error"} /\ k < Len(mirrors))
           => Len(MirrorGets) > k
  /\ \A k \in 1..Len(MirrorGets) : MirrorGets[k].out = "200" => k = Len(MirrorGets)
  /\ (pc = "done" /\ ret = noneSucceeded(mirrors)) =>
       /\ Len(MirrorGets) = Len(mirrors)
       /\ \A k \in 1..Len(MirrorGets) : MirrorGets[k].out \in {"non-200", "network error"}

\* what the bundle name says of a domain: a first part, of several, that is a
\* host name
CarriesDomain(b) ==
  Len(b.parts) > 1 /\ (ContainsDotOrColon(b.parts[1]) \/ b.parts[1] = "localhost")

\* C10: the lookup URL is <protocol>://<domain>/repositories/<path>/tags/<tag>,
\* protocol https unless given, tag latest unless given, domain the default
\* repository when the reference carries none.
C10_LookupURL ==
  url # << >> =>
    LET b == flags.args[2]
    IN url = <<IF b.proto = "" THEN "https" ELSE b.proto, "://",
               IF CarriesDomain(b) THEN b.parts[1] ELSE DefaultRepository,
               "/repositories/">>
             \o JoinPath(IF CarriesDomain(b) THEN Tail(b.parts) ELSE b.parts)
             \o <<"/tags/", IF b.tag = "" THEN "latest" ELSE b.tag>>

\* RunE has taken its first step
Started == flags # NoFlags

\* bundleFileOrArg2 returned one of its errors
Rejected == pc = "done" /\ ret # Nil /\ io = << >> /\ url = << >> /\ bundlePath = << >>

\* C11: the run is rejected when neither NAME BUNDLE nor -f was given and when
\* both were; with -f alone the path given is the manifest path and nothing is
\* resolved; a reference is resolved only for NAME BUNDLE without -f; and the
\* manifest path of a run that goes on is never empty.
C11_BundleSourceSelection ==
  Started =>
    LET twoArgs == Len(flags.args) = 2
        file == flags.bundleFile # ""
    IN /\ (~twoArgs /\ ~file) => Rejected
       /\ (twoArgs /\ file) => Rejected
       /\ (Len(flags.args) >= 1 /\ ~twoArgs /\ file) =>
            bundlePath = <<flags.bundleFile>> /\ url = << >> /\ At("GET") = {}
       /\ (url # << >> \/ At("GET") # {}) => (twoArgs /\ ~file)
       /\ bundlePath # << >> => bundlePath # <<"">>

\* the errors of the arguments and of the bundle reference
ArgumentErrors ==
  {<<"This command requires at least one argument">>,
   <<"please use either -f or specify a BUNDLE, but not both">>,
   <<"required arguments are NAME and BUNDLE or file">>,
   <<"failed to parse image name">>, <<"unsupported image name">>}

\* the error of a parameter file whose extension has no decoder
NoDecoder == ret # Nil /\ ret[1] = "no decoder for "

\* C12: a run that ends with an input error (arguments, bundle reference,
\* parameter-file extension) has done no I/O before it.
C12_InputErrorsBeforeAnyIO ==
  (pc = "done" /\ (ret \in ArgumentErrors \/ NoDecoder)) => io = << >>

\* C12 as amended: argument and reference errors come before any I/O; the
\* error of an unsupported parameter-file extension comes without reading the
\* parameter file and before any driver run or claim Store, but after the
\* bundle was resolved and the manifest and the credentials were loaded.
C12_InputErrorsBeforeSideEffects ==
  /\ (pc = "done" /\ ret \in ArgumentErrors) => io = << >>
  /\ (pc = "done" /\ NoDecoder) =>
       /\ At("ReadFile") = {} /\ At("Run") = {} /\ At("Store") = {}
       /\ At("loadBundle") # {} /\ At("loadCredentials") # {}
       /\ Len(flags.args) = 2 => At("GET") # {}

\* a run that fetched the bundle and then ended on the parameter file's
\* extension
C12_Witness ==
  /\ pc = "done"
  /\ NoDecoder
  /\ flags.valuesFile = "values.yaml"
  /\ At("GET") # {} /\ At("WriteFile") # {}

(***************************************************************************)
(* Properties of the content store                                         *)
(***************************************************************************)
Called == lastStore.op = "signAndWriteBundle"

\* the bytes a call is to write: the raw manifest bytes when insecure, the
\* clear-signed bundle and a newline otherwise
Written(call) ==
  IF call.insecure THEN ManifestBytes(call.bf)
  ELSE Clearsign(call.key, call.bf) \o <<"\n">>

\* C13: after any sequence of calls, succeeding or failing, every file of the
\* store directory is named by the digest of its own contents, and a call that
\* succeeds returns the digest of exactly the bytes it wrote.
C13_StoreIntegrity ==
  /\ \A n \in DOMAIN storeDir : n = OfBuffer(storeDir[n])
  /\ (Called /\ lastStore.err = Nil) =>
       /\ lastStore.d = OfBuffer(Written(lastStore))
       /\ lastStore.d \in DOMAIN storeDir
       /\ storeDir[lastStore.d] = Written(lastStore)

RECURSIVE InRing(_, _)
InRing(kr, id) == kr # << >> /\ (Head(kr) = id \/ InRing(Tail(kr), id))

\* the trust failures of a call, told from its inputs alone
TrustFailure(call) ==
  /\ ~call.insecure
  /\ \/ call.fault = "keyring"
     \/ Len(call.kr) = 0
     \/ call.signer # "" /\ ~InRing(call.kr, call.signer)
     \/ call.fault = "sign"

\* C14: a call with insecure unset whose key ring cannot be loaded or is empty,
\* whose signer matches no key, or whose signing fails returns an error and an
\* empty digest and leaves the store directory as it was; a call that names no
\* signer and signs does so with the first key of the ring.
C14_TrustFailureIsFatal ==
  [][LET call == lastStore'
     IN call.op = "signAndWriteBundle" =>
          /\ TrustFailure(call) =>
               call.err # Nil /\ call.d = NoDigest /\ storeDir' = storeDir
          /\ (~call.insecure /\ call.signer = "" /\ call.key # NoKey) =>
               /\ call.key = call.kr[1]
               /\ call.data = Clearsign(call.kr[1], call.bf) \o <<"\n">>]_vars

\* a call that names a signer of no key of a ring of two, on a store that holds files
C14_Witness ==
  /\ Called /\ ~lastStore.insecure /\ lastStore.signer = "carol"
  /\ Len(lastStore.kr) = 2 /\ lastStore.fault = "none"
  /\ lastStore.err # Nil /\ DOMAIN storeDir # {}

(***************************************************************************)
(* Properties of the repository generator                                  *)
(***************************************************************************)
\* the manifest files directly inside the directory or one level below it,
\* but for files named index.json
ManifestFiles ==
  {q \in Paths : /\ Len(q) <= 2
                 /\ HasSuffix(Last(q), <<".json">>)
                 /\ Last(q) # Last(IndexPath)
                 /\ dir[q].kind = "manifest"}

\* the bundle files the run went through before it ended
Handled ==
  LET all == Glob(dir)
  IN {all[k] : k \in 1..(Len(all) - Len(bundles))}

TagKey(content) == <<content.Name, content.Version>>

\* C15: when the run succeeds, every manifest file directly inside the
\* directory or one level below, other than index.json, has exactly one entry
\* (its name, its version, the digest of its bytes) in the sorted index.json and
\* the same entry as its tag file, and index.json holds nothing else; when the
\* run fails, index.json is not written and the tag files written before the
\* failure remain.
C15_GenerateFromDirectory ==
  gpc = "done" =>
    /\ genErr = Nil =>
         /\ indexFile.exists /\ indexFile.whole
         /\ AllCanonical(indexFile.Entries)
         /\ Size(indexFile.Entries) = Cardinality(ManifestFiles)
         /\ \A q \in ManifestFiles :
              LET e == EntryOf(dir[q])
              IN /\ e.Name \in DOMAIN indexFile.Entries
                 /\ Count(indexFile.Entries[e.Name], e) = 1
                 /\ TagKey(dir[q]) \in DOMAIN tagFiles
                 /\ tagFiles[TagKey(dir[q])] = e
    /\ genErr # Nil =>
         /\ indexFile = IndexFileOf(dir)
         /\ \A q \in Handled :
              ~HasSuffix(Flat(q), Last(IndexPath)) =>
                /\ TagKey(dir[q]) \in DOMAIN tagFiles
                /\ tagFiles[TagKey(dir[q])] # Truncated

====
